---- MODULE Spec2Model ----
(***************************************************************************)
(* StoneSearch.Api (api/app/main.py): two read-only request handlers in    *)
(* front of a search engine, search_transactions and stats_daily, and the  *)
(* helpers they share, parse_iso and _parse_created_at.                    *)
(*                                                                         *)
(* Representation.  A JSON value is a record [t, s, n]: t is its Python    *)
(* type, s its text when it is a string, n its value when it is a number.  *)
(* Time is counted in ticks of 10^4 seconds since the Unix epoch, and a    *)
(* number standing where a timestamp is expected (created_at,              *)
(* key_as_string) is counted in units of 10^7, so that both sides of the   *)
(* 10_000_000_000 threshold of _parse_created_at and both ends of the      *)
(* range of datetime fit in 32-bit integers.  Amounts are whole numbers.   *)
(***************************************************************************)
EXTENDS Integers, Sequences, FiniteSets, TLC

VARIABLES pc, req, start, end, esCalls, resp, status, body, norm

vars == <<pc, req, start, end, esCalls, resp, status, body, norm>>

(***************************************************************************)
(* Bounds of the model.                                                    *)
(***************************************************************************)
MaxDocs == 2         \* documents in the index when the engine is called
MaxPage == 2         \* page is any integer >= 1
MaxSize == 2         \* size is any integer in 1..100
MaxBuckets == 2      \* day buckets in an aggregation response
MaxSubBuckets == 2   \* per-type sub-buckets in a day bucket

(***************************************************************************)
(* JSON values as Python sees them.                                        *)
(***************************************************************************)
Missing == [t |-> "missing", s |-> "", n |-> 0]   \* the key is absent
Null == [t |-> "null", s |-> "", n |-> 0]         \* None
Str(x) == [t |-> "str", s |-> x, n |-> 0]
Num(x) == [t |-> "num", s |-> "", n |-> x]
List == [t |-> "list", s |-> "", n |-> 0]         \* []
Instant(x) == [t |-> "datetime", s |-> "", n |-> x]

\* A string json.loads accepts and str() keeps, but that is no valid Unicode
\* text (a lone surrogate, "\ud800"): the one str a pydantic `str` field rejects.
BadStr == Str("\\ud800")

\* d.get(key, default)
Get(v, default) == IF v.t = "missing" THEN default ELSE v

\* Python truthiness: what `x or y` tests.
Truthy(v) ==
    CASE v.t = "missing" -> FALSE
      [] v.t = "null" -> FALSE
      [] v.t = "str" -> v.s # ""
      [] v.t = "num" -> v.n # 0
      [] v.t = "list" -> FALSE
      [] OTHER -> TRUE

\* x or y
Or(x, y) == IF Truthy(x) THEN x ELSE y

\* str(v)
PyStr(v) ==
    CASE v.t = "str" -> v.s
      [] v.t = "num" -> ToString(v.n)
      [] v.t = "null" -> "None"
      [] v.t = "list" -> "[]"
      [] OTHER -> "<datetime>"

\* float(v): [ok |-> FALSE] is the ValueError or TypeError float raises.
NumericText == {"7", "2"}

ParseNumber(s) == IF s = "7" THEN 7 ELSE 2

PyFloat(v) ==
    CASE v.t = "num" -> [ok |-> TRUE, val |-> v.n]
      [] v.t = "str" /\ v.s \in NumericText -> [ok |-> TRUE, val |-> ParseNumber(v.s)]
      [] OTHER -> [ok |-> FALSE, val |-> 0]

(***************************************************************************)
(* Time.                                                                   *)
(***************************************************************************)
TicksPerUnit == 10^3          \* 10^7 seconds, in ticks
EpochMsThreshold == 1000      \* 10_000_000_000, in units of 10^7
MsPerSecond == 1000           \* value / 1000.0
MinTick == -6213559           \* datetime.min, 0001-01-01T00:00:00
MaxTick == 25340230           \* datetime.max, 9999-12-31T23:59:59

\* dateutil.parser.isoparse on the texts of the model.
IsoText == {"1967-10-13T19:33:20Z", "1970-01-01T00:00:00Z",
            "1970-04-26T17:46:40Z", "1970-08-20T11:33:20Z"}

isoparse(s) ==
    CASE s = "1967-10-13T19:33:20Z" -> [ok |-> TRUE, at |-> -7000]
      [] s = "1970-01-01T00:00:00Z" -> [ok |-> TRUE, at |-> 0]
      [] s = "1970-04-26T17:46:40Z" -> [ok |-> TRUE, at |-> 1000]
      [] s = "1970-08-20T11:33:20Z" -> [ok |-> TRUE, at |-> 2000]
      [] OTHER -> [ok |-> FALSE, at |-> 0]

\* parse_iso that reads a malformed date as the epoch instead of raising.
parse_iso_lenient(s) ==
    [ok |-> TRUE, at |-> IF isoparse(s).ok THEN isoparse(s).at ELSE 0,
     code |-> 200]

\* parse_iso: the instant, or HTTP 400.
parse_iso(s) ==
    IF isoparse(s).ok THEN [ok |-> TRUE, at |-> isoparse(s).at, code |-> 200]
    ELSE [ok |-> FALSE, at |-> 0, code |-> 400]

\* datetime.utcfromtimestamp: raises outside the years 1..9999.
utcfromtimestamp(ticks) ==
    IF ticks < MinTick \/ ticks > MaxTick
    THEN [k |-> "raise", at |-> 0]
    ELSE [k |-> "instant", at |-> ticks]

\* _parse_created_at: k is "instant" (a datetime), "none" (None) or "raise"
\* (an exception leaves the function).
_parse_created_at(value) ==
    CASE value.t \in {"missing", "null"} -> [k |-> "none", at |-> 0]
      [] value.t = "datetime" -> [k |-> "instant", at |-> value.n]
      [] value.t = "num" ->
            IF value.n > EpochMsThreshold
            THEN utcfromtimestamp(value.n * (TicksPerUnit \div MsPerSecond))
            ELSE utcfromtimestamp(value.n * TicksPerUnit)
      [] value.t = "str" ->
            IF isoparse(value.s).ok
            THEN [k |-> "instant", at |-> isoparse(value.s).at]
            ELSE [k |-> "none", at |-> 0]
      [] OTHER -> [k |-> "none", at |-> 0]

Epoch == 0    \* datetime.utcfromtimestamp(0)

(***************************************************************************)
(* The response schemas (pydantic).                                        *)
(***************************************************************************)
\* A `str` field accepts a str that is valid Unicode text.
ValidStr(s) == s # BadStr.s

\* Transaction with a non-empty id required (id: constr(min_length=1)).
TransactionNonEmptyId(id, type, created_at, client_id, payer_id, amount) ==
    /\ ValidStr(id)
    /\ id # ""
    /\ ValidStr(type)
    /\ ValidStr(client_id)
    /\ ValidStr(payer_id)

\* Transaction(...): TRUE when validation passes, FALSE on ValidationError.
\* created_at is handed a datetime and amount a float: both always pass.
Transaction(id, type, created_at, client_id, payer_id, amount) ==
    /\ ValidStr(id)
    /\ ValidStr(type)
    /\ ValidStr(client_id)
    /\ ValidStr(payer_id)

NoBody ==
    [kind |-> "none", total |-> 0, page |-> 0, size |-> 0, items |-> <<>>,
     clientId |-> "", startDate |-> 0, endDate |-> 0, buckets |-> <<>>]

TransactionSearchResponse(total, page, size, items) ==
    [kind |-> "search", total |-> total, page |-> page, size |-> size,
     items |-> items,
     clientId |-> "", startDate |-> 0, endDate |-> 0, buckets |-> <<>>]

DailyTotalsResponse(clientId, startDate, endDate, buckets) ==
    [kind |-> "daily", total |-> 0, page |-> 0, size |-> 0, items |-> <<>>,
     clientId |-> clientId, startDate |-> startDate, endDate |-> endDate,
     buckets |-> buckets]

(***************************************************************************)
(* The engine behind es.search, as the handlers rely on it: it applies the *)
(* filter, the sort and the pagination it is sent, and reports the number  *)
(* of matching documents.  What the matching documents hold is not         *)
(* constrained.  A date field reads a number as epoch milliseconds (the    *)
(* engine's default date format) and text as ISO-8601; a document whose    *)
(* created_at is neither matches no range.                                 *)
(***************************************************************************)
EsInstant(v) ==
    CASE v.t = "num" -> [ok |-> TRUE, at |-> v.n * (TicksPerUnit \div 1000)]
      [] v.t = "str" -> isoparse(v.s)
      [] OTHER -> [ok |-> FALSE, at |-> 0]

\* query: bool.filter [term client_id, range created_at gte/lte]
EsMatches(h, client_id, gte, lte) ==
    /\ h.src.client_id = Str(client_id)
    /\ EsInstant(h.src.created_at).ok
    /\ gte <= EsInstant(h.src.created_at).at
    /\ EsInstant(h.src.created_at).at <= lte

\* sort: created_at desc (documents with equal keys in any order)
EsSorted(S) ==
    {sq \in [1..Cardinality(S) -> S] :
        /\ \A i, j \in 1..Cardinality(S) : i # j => sq[i] # sq[j]
        /\ \A i, j \in 1..Cardinality(S) :
              i < j => EsInstant(sq[i].src.created_at).at
                          >= EsInstant(sq[j].src.created_at).at}

Min(a, b) == IF a <= b THEN a ELSE b

\* The responses es.search may return for the search request.
EsSearch(index, from_, size, client_id, gte, lte) ==
    LET matched == {h \in index : EsMatches(h, client_id, gte, lte)}
    IN  {[kind |-> "search",
          total |-> Cardinality(matched),
          hits |-> SubSeq(sq, from_ + 1, Min(from_ + size, Len(sq))),
          per_day |-> <<>>] : sq \in EsSorted(matched)}

NoResp == [kind |-> "none", total |-> 0, hits |-> <<>>, per_day |-> <<>>]
EsError == [kind |-> "error", total |-> 0, hits |-> <<>>, per_day |-> <<>>]

(***************************************************************************)
(* search_transactions: one hit of the loop, then the loop.                *)
(***************************************************************************)
NoItem ==
    [id |-> "", score |-> 0,
     source |-> [id |-> "", type |-> "", created_at |-> 0, client_id |-> "",
                 payer_id |-> "", amount |-> 0]]

\* k is "item" (appended), "skip" (continue) or "raise" (an exception leaves
\* the handler).  A hit that matched the filter has a _source object, so
\* `h.get("_source", {}) or {}` yields it.
MapHit(h) ==
    LET src == h.src
        tx_id == PyStr(Or(Get(src.id, Null), Get(h._id, Str(""))))
        tx_type == PyStr(Get(src.type, Str("")))
        tx_client == PyStr(Get(src.client_id, Str("")))
        tx_payer == PyStr(Get(src.payer_id, Str("")))
        tx_amount_raw == Get(src.amount, Num(0))
        tx_amount == IF PyFloat(tx_amount_raw).ok
                     THEN PyFloat(tx_amount_raw).val ELSE 0
        parsed == _parse_created_at(Get(src.created_at, Null))
        tx_created == IF parsed.k = "none" THEN Epoch ELSE parsed.at
        tx == [id |-> tx_id, type |-> tx_type, created_at |-> tx_created,
               client_id |-> tx_client, payer_id |-> tx_payer,
               amount |-> tx_amount]
    IN  IF parsed.k = "raise"
        THEN [k |-> "raise", item |-> NoItem]
        ELSE IF ~Transaction(tx_id, tx_type, tx_created, tx_client, tx_payer,
                             tx_amount)
        THEN [k |-> "skip", item |-> NoItem]
        ELSE [k |-> "item",
              item |-> [id |-> tx.id,
                        score |-> Or(Get(h._score, Null), Num(0)).n,
                        source |-> tx]]

RECURSIVE MapHits(_, _)
\* for h in hits.get("hits", []): ...
MapHits(hits, items) ==
    IF hits = <<>>
    THEN [raised |-> FALSE, items |-> items]
    ELSE LET r == MapHit(Head(hits))
         IN  CASE r.k = "raise" -> [raised |-> TRUE, items |-> <<>>]
               [] r.k = "skip" -> MapHits(Tail(hits), items)
               [] OTHER -> MapHits(Tail(hits), Append(items, r.item))

\* from_ = (page - 1) * size
Offset(page, size) == (page - 1) * size

\* size passed off by one.
SearchSizePlusOne(size) == size + 1

\* size=size in the call to es.search
SearchSize(size) == size

\* SearchResult with total taken from the items that survived validation.
SearchResultCountsItems(r, page, size) ==
    LET m == MapHits(r.hits, <<>>)
    IN  IF m.raised
        THEN [status |-> 500, body |-> NoBody]
        ELSE [status |-> 200,
              body |-> TransactionSearchResponse(Len(m.items), page, size,
                                                 m.items)]

\* The handler after es.search returned r: [status, body].
SearchResult(r, page, size) ==
    LET m == MapHits(r.hits, <<>>)
    IN  IF m.raised
        THEN [status |-> 500, body |-> NoBody]
        ELSE [status |-> 200,
              body |-> TransactionSearchResponse(r.total, page, size, m.items)]

(***************************************************************************)
(* stats_daily: the aggregation response and the two loops over it.        *)
(* A day bucket is [key_as_string, by_type]; by_type is absent, null or an *)
(* object {buckets}; buckets is absent, null, a number or a list of        *)
(* sub-buckets [key, total_amount]; total_amount is absent, null or an     *)
(* object {value}.                                                         *)
(***************************************************************************)
Absent(x) == [t |-> "missing", v |-> x]
JNull(x) == [t |-> "null", v |-> x]
Obj(x) == [t |-> "obj", v |-> x]
JList(x) == [t |-> "list", v |-> x]
JNum(x) == [t |-> "num", v |-> x]

\* totals_by_type[tkey] = val, on a dict kept as its (key, value) pairs in
\* insertion order: an existing key keeps its place and takes the new value.
DictSet(d, key, val) ==
    IF \E i \in 1..Len(d) : d[i].key = key
    THEN [i \in 1..Len(d) |->
             IF d[i].key = key THEN [key |-> key, val |-> val] ELSE d[i]]
    ELSE Append(d, [key |-> key, val |-> val])

\* One pass of `for tb in by_type`: [raised, key, val].
MapSubBucket(tb) ==
    LET tkey == PyStr(Get(tb.key, Str("")))
        s == tb.total_amount
        val0 == IF s.t = "missing" THEN Num(0) ELSE Or(Get(s.v, Num(0)), Num(0))
        val == IF PyFloat(val0).ok THEN PyFloat(val0).val ELSE 0
    IN  IF s.t = "null"
        THEN [raised |-> TRUE, key |-> "", val |-> 0]    \* None.get
        ELSE [raised |-> FALSE, key |-> tkey, val |-> val]

RECURSIVE MapSubBuckets(_, _, _)
MapSubBuckets(tbs, totals_by_type, total_all) ==
    IF tbs = <<>>
    THEN [raised |-> FALSE, totalsByType |-> totals_by_type,
          totalAllTypes |-> total_all]
    ELSE LET r == MapSubBucket(Head(tbs))
         IN  IF r.raised
             THEN [raised |-> TRUE, totalsByType |-> <<>>, totalAllTypes |-> 0]
             ELSE MapSubBuckets(Tail(tbs),
                                DictSet(totals_by_type, r.key, r.val),
                                total_all + r.val)

NoBucket == [date |-> 0, totalsByType |-> <<>>, totalAllTypes |-> 0]

\* One pass of `for b in per_day`: [raised, bucket].
MapDayBucket(b) ==
    LET parsed == _parse_created_at(Get(b.key_as_string, Null))
        day == IF parsed.k = "none" THEN Epoch ELSE parsed.at
        bt == b.by_type
        \* b.get("by_type", {}).get("buckets", []) or []
        lst == IF bt.t = "missing" \/ bt.v.t \in {"missing", "null"}
               THEN <<>> ELSE bt.v.v
        m == MapSubBuckets(lst, <<>>, 0)
    IN  IF parsed.k = "raise"
        THEN [raised |-> TRUE, bucket |-> NoBucket]
        ELSE IF bt.t = "null"                          \* None.get
        THEN [raised |-> TRUE, bucket |-> NoBucket]
        ELSE IF bt.t = "obj" /\ bt.v.t = "num"         \* for tb in 5
        THEN [raised |-> TRUE, bucket |-> NoBucket]
        ELSE IF m.raised
        THEN [raised |-> TRUE, bucket |-> NoBucket]
        ELSE [raised |-> FALSE,
              bucket |-> [date |-> day, totalsByType |-> m.totalsByType,
                          totalAllTypes |-> m.totalAllTypes]]

RECURSIVE MapDayBuckets(_, _)
MapDayBuckets(per_day, buckets) ==
    IF per_day = <<>>
    THEN [raised |-> FALSE, buckets |-> buckets]
    ELSE LET r == MapDayBucket(Head(per_day))
         IN  IF r.raised
             THEN [raised |-> TRUE, buckets |-> <<>>]
             ELSE MapDayBuckets(Tail(per_day), Append(buckets, r.bucket))

\* The handler after es.search returned r: [status, body].
DailyResult(r, client_id, startDate, endDate) ==
    LET m == MapDayBuckets(r.per_day, <<>>)
    IN  IF m.raised
        THEN [status |-> 500, body |-> NoBody]
        ELSE [status |-> 200,
              body |-> DailyTotalsResponse(client_id, startDate, endDate,
                                           m.buckets)]

(***************************************************************************)
(* Inputs: the requests, the documents the index may hold and the day      *)
(* buckets an aggregation response may hold.                               *)
(***************************************************************************)
Clients == {"c1"}
DateParams == {"not-a-date", "1967-10-13T19:33:20Z", "1970-08-20T11:33:20Z"}

Hit(_id, _score, id, type, created_at, client_id, payer_id, amount) ==
    [_id |-> _id, _score |-> _score,
     src |-> [id |-> id, type |-> type, created_at |-> created_at,
              client_id |-> client_id, payer_id |-> payer_id,
              amount |-> amount]]

\* Documents that differ in the two ids.
IdDocs ==
    {Hit(_id, Null, id, Str("pix"), Str("1970-04-26T17:46:40Z"), Str("c1"),
         Str("p1"), Num(5)) :
        _id \in {Missing, Str(""), Str("d1")},
        id \in {Missing, Null, Str(""), Str("t1"), Num(0), Num(7), BadStr}}

\* Documents that differ in created_at.
TimeDocs ==
    {Hit(Str("d2"), Null, Str("t2"), Str("pix"), created_at, Str("c1"),
         Str("p1"), Num(5)) :
        created_at \in {Missing, Str("not-a-date"), Str("1970-01-01T00:00:00Z"),
                        Str("1970-08-20T11:33:20Z"), Num(100), Num(1001),
                        Num(-7000)}}

\* Documents that differ in one of the other fields.
FieldDocs ==
    {Hit(Str("d3"), Null, Str("t3"), Str("pix"), Str("1970-01-01T00:00:00Z"),
         client_id, Str("p1"), Num(5)) : client_id \in {Str("c2"), Missing}}
    \cup
    {Hit(Str("d3"), Null, Str("t3"), Str("pix"), Str("1970-01-01T00:00:00Z"),
         Str("c1"), Str("p1"), amount) :
        amount \in {Missing, Null, Str("abc"), Str("7")}}
    \cup
    {Hit(Str("d3"), Null, Str("t3"), type, Str("1970-01-01T00:00:00Z"),
         Str("c1"), Str("p1"), Num(5)) : type \in {Missing, Num(3), BadStr}}
    \cup
    {Hit(Str("d3"), _score, Str("t3"), Str("ted"), Str("1970-01-01T00:00:00Z"),
         Str("c1"), payer_id, Num(5)) :
        _score \in {Null, Num(2)}, payer_id \in {Missing, BadStr}}

Docs == IdDocs \cup TimeDocs \cup FieldDocs

RECURSIVE SetsUpTo(_, _)
SetsUpTo(S, n) ==
    IF n = 0 THEN {{}}
    ELSE LET smaller == SetsUpTo(S, n - 1)
         IN  smaller \cup {T \cup {x} : T \in smaller, x \in S}

Indexes == SetsUpTo(Docs, MaxDocs)

SubBucket(key, total_amount) == [key |-> key, total_amount |-> total_amount]

\* Sub-buckets whose keys are absent or become the same text.
KeySubBuckets ==
    {SubBucket(Missing, Obj(Num(1))), SubBucket(Str(""), Obj(Num(2)))}

\* Sub-buckets that differ in total_amount.
ValueSubBuckets ==
    {SubBucket(Str("ted"), ta) :
        ta \in {Absent(Missing), JNull(Missing), Obj(Null), Obj(Str("abc")),
                Obj(Str("7"))}}

RECURSIVE SeqsUpTo(_, _)
SeqsUpTo(S, n) ==
    IF n = 0 THEN {<<>>}
    ELSE LET shorter == SeqsUpTo(S, n - 1)
         IN  shorter \cup {Append(sq, x) : sq \in shorter, x \in S}

SubBucketLists ==
    SeqsUpTo(KeySubBuckets, MaxSubBuckets)
    \cup {<<tb>> : tb \in ValueSubBuckets}
    \cup {<<SubBucket(Str("pix"), Obj(Num(2))), SubBucket(Num(1), Obj(Num(3)))>>}

ByTypes ==
    {Absent(Absent(<<>>)), JNull(Absent(<<>>)), Obj(JNull(<<>>)),
     Obj(JNum(<<>>))}
    \cup {Obj(JList(l)) : l \in SubBucketLists}

DayBucket(key_as_string, by_type) ==
    [key_as_string |-> key_as_string, by_type |-> by_type]

DayBuckets ==
    {DayBucket(Str("1970-01-01T00:00:00Z"), bt) : bt \in ByTypes}
    \cup
    {DayBucket(k, Obj(JList(<<SubBucket(Str("pix"), Obj(Num(2)))>>))) :
        k \in {Missing, Str("not-a-date"), Num(-7000)}}

\* The responses es.search may return for the aggregation request.
EsAggregate ==
    {[kind |-> "aggs", total |-> 0, hits |-> <<>>, per_day |-> pd] :
        pd \in SeqsUpTo(DayBuckets, MaxBuckets)}

(***************************************************************************)
(* The handlers.                                                           *)
(***************************************************************************)
NoReq ==
    [handler |-> "none", client_id |-> "", startDate |-> "", endDate |-> "",
     page |-> 0, size |-> 0]

NoNorm == [in |-> Missing, out |-> [k |-> "none", at |-> 0], done |-> FALSE]

Init ==
    /\ pc = "idle"
    /\ req = NoReq
    /\ start = 0
    /\ end = 0
    /\ esCalls = 0
    /\ resp = NoResp
    /\ status = 0
    /\ body = NoBody
    /\ norm = NoNorm

\* start = parse_iso(startDate); end = parse_iso(endDate): the handler goes
\* on to the engine call, or ends with the HTTP 400 parse_iso raises.
ParseDates(handler, startDate, endDate) ==
    LET s == parse_iso(startDate)
        e == parse_iso(endDate)
    IN  IF s.ok /\ e.ok
        THEN /\ pc' = handler
             /\ start' = s.at
             /\ end' = e.at
             /\ status' = 0
        ELSE /\ pc' = "done"
             /\ start' = 0
             /\ end' = 0
             /\ status' = IF s.ok THEN e.code ELSE s.code

\* An except branch that goes back to the engine call.
OnEsErrorRetry(handler) == [pc |-> handler, status |-> 0, body |-> NoBody]

\* except Exception as e: raise HTTPException(status_code=500, ...)
OnEsError(handler) == [pc |-> "done", status |-> 500, body |-> NoBody]

SearchStart(client_id, startDate, endDate, page, size) ==
    /\ pc = "idle"
    /\ req' = [handler |-> "search", client_id |-> client_id,
               startDate |-> startDate, endDate |-> endDate,
               page |-> page, size |-> size]
    /\ ParseDates("search", startDate, endDate)
    /\ UNCHANGED <<esCalls, resp, body, norm>>

SearchEsOk ==
    /\ pc = "search"
    /\ \E index \in Indexes :
         \E r \in EsSearch(index, Offset(req.page, req.size),
                           SearchSize(req.size), req.client_id, start, end) :
            /\ resp' = r
            /\ status' = SearchResult(r, req.page, req.size).status
            /\ body' = SearchResult(r, req.page, req.size).body
    /\ esCalls' = esCalls + 1
    /\ pc' = "done"
    /\ UNCHANGED <<req, start, end, norm>>

SearchEsFail ==
    /\ pc = "search"
    /\ esCalls' = esCalls + 1
    /\ resp' = EsError
    /\ pc' = OnEsError("search").pc
    /\ status' = OnEsError("search").status
    /\ body' = OnEsError("search").body
    /\ UNCHANGED <<req, start, end, norm>>

DailyStart(client_id, startDate, endDate) ==
    /\ pc = "idle"
    /\ req' = [handler |-> "daily", client_id |-> client_id,
               startDate |-> startDate, endDate |-> endDate,
               page |-> 0, size |-> 0]
    /\ ParseDates("daily", startDate, endDate)
    /\ UNCHANGED <<esCalls, resp, body, norm>>

DailyEsOk ==
    /\ pc = "daily"
    /\ \E r \in EsAggregate :
          /\ resp' = r
          /\ status' = DailyResult(r, req.client_id, start, end).status
          /\ body' = DailyResult(r, req.client_id, start, end).body
    /\ esCalls' = esCalls + 1
    /\ pc' = "done"
    /\ UNCHANGED <<req, start, end, norm>>

DailyEsFail ==
    /\ pc = "daily"
    /\ esCalls' = esCalls + 1
    /\ resp' = EsError
    /\ pc' = OnEsError("daily").pc
    /\ status' = OnEsError("daily").status
    /\ body' = OnEsError("daily").body
    /\ UNCHANGED <<req, start, end, norm>>

\* The response is sent; nothing of the request is kept.
Finish ==
    /\ pc = "done"
    /\ pc' = "idle"
    /\ req' = NoReq
    /\ start' = 0
    /\ end' = 0
    /\ esCalls' = 0
    /\ resp' = NoResp
    /\ status' = 0
    /\ body' = NoBody
    /\ UNCHANGED norm

Next ==
    \/ \E c \in Clients, sd \in DateParams, ed \in DateParams,
          page \in 1..MaxPage, size \in 1..MaxSize :
          SearchStart(c, sd, ed, page, size)
    \/ SearchEsOk
    \/ SearchEsFail
    \/ \E c \in Clients, sd \in DateParams, ed \in DateParams :
          DailyStart(c, sd, ed)
    \/ DailyEsOk
    \/ DailyEsFail
    \/ Finish

Spec == Init /\ [][Next]_vars

(***************************************************************************)
(* _parse_created_at on its own: every kind of value it may be handed.     *)
(***************************************************************************)
NormSpan == 30     \* numbers from -NormSpan * 250 to NormSpan * 250 units

NormInputs ==
    {Missing, Null, List, Str("not-a-date"), Str(""), Num(30000000),
     Num(-2000000)}
    \cup {Str(s) : s \in IsoText}
    \cup {Instant(t) : t \in {-7000, 0, 1000}}
    \cup {Num(k * 250) : k \in (0 - NormSpan)..NormSpan}

NormInit ==
    /\ pc = "idle"
    /\ req = NoReq
    /\ start = 0
    /\ end = 0
    /\ esCalls = 0
    /\ resp = NoResp
    /\ status = 0
    /\ body = NoBody
    /\ norm \in {[in |-> v, out |-> [k |-> "none", at |-> 0], done |-> FALSE] :
                    v \in NormInputs}

Normalize ==
    /\ ~norm.done
    /\ norm' = [in |-> norm.in, out |-> _parse_created_at(norm.in),
                done |-> TRUE]
    /\ UNCHANGED <<pc, req, start, end, esCalls, resp, status, body>>

NormNext == Normalize

SpecNormalizer == NormInit /\ [][NormNext]_vars

(***************************************************************************)
(* Properties.                                                             *)
(***************************************************************************)
SearchDone == pc = "done" /\ status = 200 /\ body.kind = "search"
DailyDone == pc = "done" /\ status = 200 /\ body.kind = "daily"

BadDates ==
    /\ req.handler # "none"
    /\ ~isoparse(req.startDate).ok \/ ~isoparse(req.endDate).ok

\* C1: in both handlers, a request whose startDate or endDate is not ISO-8601
\* ends with HTTP 400 and the engine is never called for it.
C1_BadDateIs400WithoutEngineCall ==
    BadDates => /\ pc = "done"
                /\ status = 400
                /\ esCalls = 0
                /\ resp = NoResp
                /\ body = NoBody

C1_Witness ==
    /\ req.handler = "daily"
    /\ isoparse(req.startDate).ok
    /\ ~isoparse(req.endDate).ok
    /\ status = 400

\* C2: a request makes at most one engine call; when the call fails the
\* request has ended with HTTP 500, without a body and without a second call.
C2_OneEngineCallNoRetry ==
    /\ esCalls <= 1
    /\ resp.kind = "error" => /\ pc = "done"
                              /\ esCalls = 1
                              /\ status = 500
                              /\ body = NoBody

C2_Witness == req.handler = "search" /\ resp.kind = "error" /\ status = 500

\* C3: with valid parameters and a successful engine call, search_transactions
\* returns a SearchResponse whatever the stored documents hold.
C3_NoDocumentFailsSearch ==
    (pc = "done" /\ resp.kind = "search") => SearchDone

\* C4: total of a search response is the match count the engine reported,
\* however many hits validation skipped.
C4_TotalIsEngineCount == SearchDone => body.total = resp.total

C4_Witness ==
    /\ SearchDone
    /\ Len(body.items) < Len(resp.hits)
    /\ body.total = resp.total
    /\ body.total > Len(body.items)

SomeHitLost == Len(body.items) < Len(resp.hits)

\* C5: a search response has at most size items, and as many items as total
\* only when total is at most size and no hit was skipped.
C5_ItemsAtMostSize ==
    SearchDone =>
        /\ Len(body.items) <= req.size
        /\ Len(body.items) = body.total =>
              (body.total <= req.size /\ ~SomeHitLost)

C5_Witness ==
    /\ SearchDone
    /\ Len(body.items) = body.total
    /\ body.total = req.size
    /\ req.size > 1

\* C6: with start <= end, every item of a search response has created_at
\* within [start, end].
C6_ItemsWithinRange ==
    (SearchDone /\ start <= end) =>
        \A i \in 1..Len(body.items) :
            /\ start <= body.items[i].source.created_at
            /\ body.items[i].source.created_at <= end

RECURSIVE SumVals(_)
SumVals(d) == IF d = <<>> THEN 0 ELSE Head(d).val + SumVals(Tail(d))

\* C7: in every bucket of a daily totals response, totalAllTypes is the sum
\* of the values of totalsByType.
C7_TotalAllIsSumOfTypes ==
    DailyDone =>
        \A i \in 1..Len(body.buckets) :
            body.buckets[i].totalAllTypes = SumVals(body.buckets[i].totalsByType)

\* The id a hit is given: the stored id when it is neither absent nor empty,
\* else the engine's document id, else the empty text.
StoredOrEngineId(h) ==
    IF h.src.id.t = "str" /\ h.src.id.s # "" THEN h.src.id.s
    ELSE IF h.src.id.t = "num" /\ h.src.id.n # 0 THEN ToString(h.src.id.n)
    ELSE IF h._id.t = "str" THEN h._id.s
    ELSE ""

TextFieldsValid(h) ==
    /\ h.src.type # BadStr
    /\ h.src.payer_id # BadStr
    /\ h.src.client_id # BadStr

C9_OneBucketPerDayBucket ==
    (pc = "done" /\ resp.kind = "aggs") =>
        /\ DailyDone
        /\ Len(body.buckets) = Len(resp.per_day)

\* C10: _parse_created_at returns an instant or None for every value and
\* never raises.
C10_NormalizerNeverRaises == norm.done => norm.out.k \in {"instant", "none"}

====
